---- MODULE Spec2Model ----
(***************************************************************************)
(* Model of app.py: the Bitcoin ETF flow scraper.                          *)
(*                                                                         *)
(*   scrape_bitcoin_etf_data  one session, one GET, table extraction       *)
(*   process_data             rows -> list of header:value dictionaries    *)
(*   scrape_endpoint          the /scrape retry driver (max_retries = 3)   *)
(*   main                     the one-shot path (a single attempt)         *)
(*                                                                         *)
(* Text is a sequence of one-character strings.  A cell (td) is modelled   *)
(* by the text before its first span.tabletext, the text of that span and  *)
(* the text after it; cell.get_text() is the concatenation of the three.   *)
(* The 1-3 s sleep before the GET and the last_updated timestamp are not   *)
(* state; the backoff duration is, while the driver sleeps.                *)
(***************************************************************************)
EXTENDS Integers, Sequences, FiniteSets, TLC

VARIABLES
    mode,        \* "idle" | "service" (GET /scrape) | "batch" (main())
    pc,          \* position of the running handler
    attempt,     \* loop variable of `for attempt in range(max_retries)`
    response,    \* what session.get returned inside the running call
    ret,         \* value returned by scrape_bitcoin_etf_data: (headers, data)
    diag,        \* diagnostic printed by the running / last call
    json_data,   \* value returned by process_data
    httpResp,    \* what scrape_endpoint returned to the HTTP client
    wait_time,   \* local wait_time of scrape_endpoint
    sessionsOpen,\* requests.Session objects created and not yet closed
    calls,       \* history: calls of scrape_bitcoin_etf_data in this request
    gets,        \* history: session.get calls in this request
    getsInCall,  \* history: session.get calls inside the running call
    backoffs,    \* history: backoff sleeps in this request
    outcomes     \* history: diagnostic of every finished call, in order

vars == <<mode, pc, attempt, response, ret, diag, json_data, httpResp,
          wait_time, sessionsOpen, calls, gets, getsInCall, backoffs, outcomes>>

----------------------------------------------------------------------------
(* Program constants *)

max_retries == 3

table_headers == <<"Date", "IBIT", "FBTC", "BITB", "ARKB", "BTCO", "EZBC",
                   "BRRR", "HODL", "BTCW", "GBTC", "BTC", "Total">>

BackoffMin == 5
BackoffMax == 10

(* Bounds of the model *)

\* most <tr> elements after the first one in a table
MaxDataRows == 3

----------------------------------------------------------------------------
(* Text *)

Whitespace == {" ", "\n"}

RECURSIVE lstrip(_)
lstrip(t) ==
    IF t # <<>> /\ Head(t) \in Whitespace THEN lstrip(Tail(t)) ELSE t

RECURSIVE rstrip(_)
rstrip(t) ==
    IF t # <<>> /\ t[Len(t)] \in Whitespace
    THEN rstrip(SubSeq(t, 1, Len(t) - 1))
    ELSE t

\* str.strip()
strip(t) == rstrip(lstrip(t))

----------------------------------------------------------------------------
(* Documents served by the upstream site *)

\* <td>x<span class="tabletext"> 1 </span> </td>
CellSpan ==
    [hasSpan |-> TRUE, before |-> <<"x">>, span |-> <<" ", "1", " ">>,
     after |-> <<" ">>]

\* <td> -2\n</td>
CellPlain ==
    [hasSpan |-> FALSE, before |-> <<" ", "-", "2", "\n">>, span |-> <<>>,
     after |-> <<>>]

\* <td>\n<span class="tabletext">(3)</span>y</td>
CellSpanTight ==
    [hasSpan |-> TRUE, before |-> <<"\n">>, span |-> <<"(", "3", ")">>,
     after |-> <<"y">>]

\* <td> </td>
CellBlank ==
    [hasSpan |-> FALSE, before |-> <<" ">>, span |-> <<>>, after |-> <<>>]

CellPool == <<CellSpan, CellPlain, CellSpanTight, CellBlank>>

\* a <tr> with len <td> cells, cycling through the pool from offset shift
RowOf(len, shift) ==
    [i \in 1..len |-> CellPool[((i + shift) % Len(CellPool)) + 1]]

N == Len(table_headers)

RowPool ==
    { RowOf(0, 0), RowOf(N - 1, 0), RowOf(N, 0), RowOf(N, 1), RowOf(N + 1, 2) }

\* first <tr> of a table: one without <td> cells (<th> only), one with N
HeaderPool == { RowOf(0, 0), RowOf(N, 0) }

SeqsUpTo(S, n) == UNION { [1..k -> S] : k \in 0..n }

NoTableDoc == [hasTable |-> FALSE, rows |-> <<>>]

\* <table class="etf"> without any <tr>
NoRowsDoc == [hasTable |-> TRUE, rows |-> <<>>]

Docs ==
    {NoTableDoc, NoRowsDoc} \cup
    { [hasTable |-> TRUE, rows |-> <<h>> \o r] :
        h \in HeaderPool, r \in SeqsUpTo(RowPool, MaxDataRows) }

----------------------------------------------------------------------------
(* scrape_bitcoin_etf_data: extraction *)

NonePair == [none |-> TRUE, headers |-> <<>>, data |-> <<>>]

\* cell.get_text()
get_text(cell) == cell.before \o cell.span \o cell.after

\* variant: the span is ignored, the whole cell text is taken
cell_value_full_text(cell) == strip(get_text(cell))

\* lines 81-86
cell_value(cell) ==
    IF cell.hasSpan THEN strip(cell.span) ELSE strip(get_text(cell))

\* lines 75-86: the inner loop over enumerate(cells)
RECURSIVE row_data_from(_, _)
row_data_from(cells, i) ==
    IF i > Len(cells) THEN <<>>
    ELSE IF i - 1 < Len(table_headers)
         THEN <<cell_value(cells[i])>> \o row_data_from(cells, i + 1)
         ELSE row_data_from(cells, i + 1)

\* variant: any non-empty row is kept
row_accepted_lenient(row_data) == Len(row_data) > 0

\* line 89
row_accepted(row_data) == Len(row_data) = Len(table_headers)

\* variant: data.insert(0, row_data) instead of data.append(row_data)
RECURSIVE extract_rows_prepend(_)
extract_rows_prepend(rows) ==
    IF rows = <<>> THEN <<>>
    ELSE LET cells == Head(rows)
             row_data == row_data_from(cells, 1)
         IN  IF cells # <<>> /\ row_accepted(row_data)
             THEN extract_rows_prepend(Tail(rows)) \o <<row_data>>
             ELSE extract_rows_prepend(Tail(rows))

\* lines 70-90: the loop over rows[1:]
RECURSIVE extract_rows(_)
extract_rows(rows) ==
    IF rows = <<>> THEN <<>>
    ELSE LET cells == Head(rows)
             row_data == row_data_from(cells, 1)
         IN  IF cells # <<>> /\ row_accepted(row_data)
             THEN <<row_data>> \o extract_rows(Tail(rows))
             ELSE extract_rows(Tail(rows))

\* variant: the `if not data` check of lines 92-94 is missing
extract_diag_no_empty_check(doc) ==
    IF ~doc.hasTable THEN "table_not_found"
    ELSE IF doc.rows = <<>> THEN "no_rows"
    ELSE "ok"

\* lines 58-96: diagnostic and return value for a parsed document
extract_diag(doc) ==
    IF ~doc.hasTable THEN "table_not_found"
    ELSE IF doc.rows = <<>> THEN "no_rows"
    ELSE IF extract_rows(Tail(doc.rows)) = <<>> THEN "no_data"
    ELSE "ok"

extract_ret(doc) ==
    IF extract_diag(doc) = "ok"
    THEN [none |-> FALSE, headers |-> table_headers,
          data |-> extract_rows(Tail(doc.rows))]
    ELSE NonePair

----------------------------------------------------------------------------
(* process_data *)

\* Python truthiness of `headers and data`
truthy(r) == ~r.none /\ r.headers # <<>> /\ r.data # <<>>

\* line 120: {headers[i]: value for i, value in enumerate(row)}
row_dict(headers, row) ==
    [h \in { headers[i] : i \in 1..Len(row) } |->
        row[CHOOSE i \in 1..Len(row) :
                /\ headers[i] = h
                /\ \A j \in 1..Len(row) : headers[j] = h => j <= i]]

\* lines 115-134 (None is modelled by the empty list)
process_data(headers, data) ==
    IF headers # <<>> /\ data # <<>>
    THEN [k \in 1..Len(data) |-> row_dict(headers, data[k])]
    ELSE <<>>

----------------------------------------------------------------------------
(* State *)

NoResponse == [status |-> "none", doc |-> NoTableDoc]

NoHttpResp ==
    [status |-> "none", code |-> 0, total_records |-> 0, columns |-> <<>>,
     data |-> <<>>]

\* lines 190-194
ErrorResp ==
    [status |-> "error", code |-> 500, total_records |-> 0, columns |-> <<>>,
     data |-> <<>>]

\* lines 173-181
SuccessResp(r, json) ==
    [status |-> "success", code |-> 200, total_records |-> Len(r.data),
     columns |-> r.headers, data |-> json]

Init ==
    /\ mode = "idle"
    /\ pc = "idle"
    /\ attempt = 0
    /\ response = NoResponse
    /\ ret = NonePair
    /\ diag = "none"
    /\ json_data = <<>>
    /\ httpResp = NoHttpResp
    /\ wait_time = 0
    /\ sessionsOpen = 0
    /\ calls = 0
    /\ gets = 0
    /\ getsInCall = 0
    /\ backoffs = 0
    /\ outcomes = <<>>

----------------------------------------------------------------------------
(* Entry points *)

\* GET /scrape arrives: lines 155-164, first loop iteration
scrape_endpoint_start ==
    /\ pc = "idle"
    /\ mode' = "service"
    /\ attempt' = 0
    /\ pc' = "attempting"
    /\ UNCHANGED <<response, ret, diag, json_data, httpResp, wait_time,
                   sessionsOpen, calls, gets, getsInCall, backoffs, outcomes>>

\* main() is called: lines 196-203
main_start ==
    /\ pc = "idle"
    /\ mode' = "batch"
    /\ pc' = "attempting"
    /\ UNCHANGED <<attempt, response, ret, diag, json_data, httpResp,
                   wait_time, sessionsOpen, calls, gets, getsInCall, backoffs,
                   outcomes>>

----------------------------------------------------------------------------
(* scrape_bitcoin_etf_data, step by step *)

\* lines 167 / 203 and 17-38: the call, session = requests.Session()
call_scrape ==
    /\ pc = "attempting"
    /\ pc' = "in_try"
    /\ sessionsOpen' = sessionsOpen + 1
    /\ calls' = calls + 1
    /\ getsInCall' = 0
    /\ response' = NoResponse
    /\ diag' = "none"
    /\ UNCHANGED <<mode, attempt, ret, json_data, httpResp, wait_time, gets,
                   backoffs, outcomes>>

\* the except clauses all end in `return None, None`: lines 98-109
caught(kind) ==
    /\ diag' = kind
    /\ ret' = NonePair
    /\ pc' = "finally"

\* lines 42-46, 2xx answer carrying document d
get_ok ==
    /\ pc = "in_try"
    /\ \E d \in Docs : response' = [status |-> "ok", doc |-> d]
    /\ gets' = gets + 1
    /\ getsInCall' = getsInCall + 1
    /\ pc' = "parsing"
    /\ UNCHANGED <<mode, attempt, ret, diag, json_data, httpResp, wait_time,
                   sessionsOpen, calls, backoffs, outcomes>>

\* lines 45-46 raise; lines 98-109 catch
get_failed ==
    /\ pc = "in_try"
    /\ gets' = gets + 1
    /\ getsInCall' = getsInCall + 1
    /\ \E kind \in {"http_403", "http_error", "request_error", "scraping_error"} :
          caught(kind)
    /\ UNCHANGED <<mode, attempt, response, json_data, httpResp, wait_time,
                   sessionsOpen, calls, backoffs, outcomes>>

\* lines 51-96
extract ==
    /\ pc = "parsing"
    /\ diag' = extract_diag(response.doc)
    /\ ret' = extract_ret(response.doc)
    /\ pc' = "finally"
    /\ UNCHANGED <<mode, attempt, response, json_data, httpResp, wait_time,
                   sessionsOpen, calls, gets, getsInCall, backoffs, outcomes>>

\* lines 51-96 raise something unexpected; lines 107-109 catch
extract_raises ==
    /\ pc = "parsing"
    /\ caught("scraping_error")
    /\ UNCHANGED <<mode, attempt, response, json_data, httpResp, wait_time,
                   sessionsOpen, calls, gets, getsInCall, backoffs, outcomes>>

\* variant: session.close() at the end of the try body, not in finally
finally_close_only_on_success ==
    /\ pc = "finally"
    /\ sessionsOpen' = IF diag = "ok" THEN sessionsOpen - 1 ELSE sessionsOpen
    /\ response' = NoResponse
    /\ outcomes' = Append(outcomes, diag)
    /\ pc' = "returned"
    /\ UNCHANGED <<mode, attempt, ret, diag, json_data, httpResp, wait_time,
                   calls, gets, getsInCall, backoffs>>

\* lines 110-111, then the function returns and its locals are gone
finally_close ==
    /\ pc = "finally"
    /\ sessionsOpen' = sessionsOpen - 1
    /\ response' = NoResponse
    /\ outcomes' = Append(outcomes, diag)
    /\ pc' = "returned"
    /\ UNCHANGED <<mode, attempt, ret, diag, json_data, httpResp, wait_time,
                   calls, gets, getsInCall, backoffs>>

----------------------------------------------------------------------------
(* scrape_endpoint: the retry driver *)

\* variant: the sleep is not skipped after the last attempt
retry_allowed_always(a) == a < max_retries

\* line 183
retry_allowed(a) == a < max_retries - 1

\* variant: one iteration too many
in_range_one_more(a) == a < max_retries + 1

\* variant: the loop is left after an "access forbidden" answer
in_range_unless_403(a) == a < max_retries /\ diag # "http_403"

\* line 164: a is a value of range(max_retries)
in_range(a) == a < max_retries

\* line 164 (next iteration) or lines 190-194 (loop exhausted)
loop_next ==
    IF in_range(attempt + 1)
    THEN /\ attempt' = attempt + 1
         /\ pc' = "attempting"
         /\ UNCHANGED httpResp
    ELSE /\ httpResp' = ErrorResp
         /\ pc' = "done"
         /\ UNCHANGED attempt

\* variant: the success branch builds the response but does not return
scrape_endpoint_success_no_return ==
    /\ pc = "returned"
    /\ mode = "service"
    /\ truthy(ret)
    /\ json_data' = process_data(ret.headers, ret.data)
    /\ httpResp' = SuccessResp(ret, json_data')
    /\ IF in_range(attempt + 1)
       THEN attempt' = attempt + 1 /\ pc' = "attempting"
       ELSE attempt' = attempt /\ pc' = "done"
    /\ UNCHANGED <<mode, response, ret, diag, wait_time,
                   sessionsOpen, calls, gets, getsInCall, backoffs, outcomes>>

\* lines 169-181
scrape_endpoint_success ==
    /\ pc = "returned"
    /\ mode = "service"
    /\ truthy(ret)
    /\ json_data' = process_data(ret.headers, ret.data)
    /\ httpResp' = SuccessResp(ret, json_data')
    /\ pc' = "done"
    /\ UNCHANGED <<mode, attempt, response, ret, diag, wait_time,
                   sessionsOpen, calls, gets, getsInCall, backoffs, outcomes>>

\* lines 182-186: time.sleep(wait_time) begins
scrape_endpoint_backoff ==
    /\ pc = "returned"
    /\ mode = "service"
    /\ ~truthy(ret)
    /\ retry_allowed(attempt)
    /\ \E w \in BackoffMin..BackoffMax : wait_time' = w
    /\ backoffs' = backoffs + 1
    /\ pc' = "backing_off"
    /\ UNCHANGED <<mode, attempt, response, ret, diag, json_data, httpResp,
                   sessionsOpen, calls, gets, getsInCall, outcomes>>

\* line 186 returns (wait_time is not read again), the loop goes on
backoff_wake ==
    /\ pc = "backing_off"
    /\ wait_time' = 0
    /\ loop_next
    /\ UNCHANGED <<mode, response, ret, diag, json_data,
                   sessionsOpen, calls, gets, getsInCall, backoffs, outcomes>>

\* lines 187-188, then the loop goes on
scrape_endpoint_all_failed ==
    /\ pc = "returned"
    /\ mode = "service"
    /\ ~truthy(ret)
    /\ ~retry_allowed(attempt)
    /\ loop_next
    /\ UNCHANGED <<mode, response, ret, diag, json_data, wait_time,
                   sessionsOpen, calls, gets, getsInCall, backoffs, outcomes>>

----------------------------------------------------------------------------
(* main: the one-shot path *)

\* variant: main() tries again after a failure
main_finish_retry ==
    /\ pc = "returned"
    /\ mode = "batch"
    /\ json_data' = IF truthy(ret) THEN process_data(ret.headers, ret.data)
                                   ELSE json_data
    /\ pc' = IF ~truthy(ret) /\ calls < max_retries THEN "attempting" ELSE "done"
    /\ UNCHANGED <<mode, attempt, response, ret, diag, httpResp, wait_time,
                   sessionsOpen, calls, gets, getsInCall, backoffs, outcomes>>

\* lines 205-209
main_finish ==
    /\ pc = "returned"
    /\ mode = "batch"
    /\ json_data' = IF truthy(ret) THEN process_data(ret.headers, ret.data)
                                   ELSE json_data
    /\ pc' = "done"
    /\ UNCHANGED <<mode, attempt, response, ret, diag, httpResp, wait_time,
                   sessionsOpen, calls, gets, getsInCall, backoffs, outcomes>>

----------------------------------------------------------------------------

\* every invocation is independent: nothing survives a finished one
next_request ==
    /\ pc = "done"
    /\ mode' = "idle"
    /\ pc' = "idle"
    /\ attempt' = 0
    /\ response' = NoResponse
    /\ ret' = NonePair
    /\ diag' = "none"
    /\ json_data' = <<>>
    /\ httpResp' = NoHttpResp
    /\ wait_time' = 0
    /\ sessionsOpen' = 0
    /\ calls' = 0
    /\ gets' = 0
    /\ getsInCall' = 0
    /\ backoffs' = 0
    /\ outcomes' = <<>>

Next ==
    \/ scrape_endpoint_start
    \/ main_start
    \/ call_scrape
    \/ get_ok
    \/ get_failed
    \/ extract
    \/ extract_raises
    \/ finally_close
    \/ scrape_endpoint_success
    \/ scrape_endpoint_backoff
    \/ backoff_wake
    \/ scrape_endpoint_all_failed
    \/ main_finish
    \/ next_request

Spec == Init /\ [][Next]_vars

----------------------------------------------------------------------------
(* Vocabulary of the properties *)

StructureNotFound == {"table_not_found", "no_rows"}
EmptyResult == {"no_data"}

InService == mode = "service"

Failed(i) == outcomes[i] # "ok"
AllFailed == \A i \in 1..Len(outcomes) : Failed(i)

\* the extraction has run to its return statement on the document in response
Extracted ==
    /\ pc = "finally"
    /\ response.status = "ok"
    /\ diag # "scraping_error"

DataRows(doc) == Tail(doc.rows)

\* v is t without its leading and trailing whitespace
IsTrimOf(t, v) ==
    /\ v = <<>> \/ (v[1] \notin Whitespace /\ v[Len(v)] \notin Whitespace)
    /\ \E a \in 0..Len(t) :
          /\ a + Len(v) <= Len(t)
          /\ \A k \in 1..Len(v) : t[a + k] = v[k]
          /\ \A k \in 1..Len(t) :
                (k <= a \/ k > a + Len(v)) => t[k] \in Whitespace

\* v is what the specification asks for cell c
IsValueOf(c, v) ==
    IF c.hasSpan THEN IsTrimOf(c.span, v)
    ELSE IsTrimOf(c.before \o c.after, v)

\* data holds, row by row and in order, the first N values of the rows in kept
Mirrors(data, kept) ==
    /\ Len(data) = Len(kept)
    /\ \A j \in 1..Len(kept) :
          /\ Len(data[j]) = 13
          /\ \A i \in 1..13 : IsValueOf(kept[j][i], data[j][i])

\* what the caller of the extraction gets for the rows in kept
ReturnsRows(kept) ==
    IF kept = <<>> THEN ret = NonePair
    ELSE /\ ~ret.none
         /\ ret.headers = table_headers
         /\ Mirrors(ret.data, kept)

HasExactlyN(r) == Len(r) = 13
HasAtLeastN(r) == Len(r) >= 13

----------------------------------------------------------------------------
(* C1: when every attempt of a /scrape request fails, exactly 3 attempts    *)
(* are made, never fewer and never more, and the request ends with the     *)
(* error response and HTTP status 500.                                     *)
C1_AllFailThreeAttempts ==
    InService =>
        /\ calls <= 3
        /\ (pc = "done" /\ AllFailed) =>
              /\ calls = 3 /\ gets = 3 /\ Len(outcomes) = 3
              /\ httpResp.status = "error" /\ httpResp.code = 500
        /\ httpResp.status = "error" =>
              pc = "done" /\ AllFailed /\ calls = 3

C1_Witness ==
    InService /\ pc = "done" /\ AllFailed /\ calls = 3 /\ httpResp.code = 500

(* C2: the first successful attempt k of a /scrape request ends it with    *)
(* the success response after exactly k attempts: nothing is fetched and   *)
(* no backoff is slept after it; fail once, then succeed gives 2 attempts. *)
C2_FirstSuccessEnds ==
    InService =>
        /\ \A k \in 1..Len(outcomes) :
              ~Failed(k) =>
                  /\ k = Len(outcomes) /\ k <= 3
                  /\ calls = k /\ gets = k /\ backoffs = k - 1
                  /\ pc \in {"returned", "done"}
                  /\ pc = "done" => httpResp.status = "success" /\ httpResp.code = 200
        /\ httpResp.status = "success" =>
              /\ pc = "done"
              /\ outcomes # <<>> /\ ~Failed(Len(outcomes))
              /\ httpResp.total_records = Len(ret.data)
              /\ httpResp.data = json_data

C2_Witness ==
    /\ InService /\ pc = "done" /\ httpResp.status = "success"
    /\ Len(outcomes) = 2 /\ Failed(1) /\ calls = 2

(* C3: for a table of a header row and M >= 1 data rows of exactly 13      *)
(* cells each, the extraction returns M rows of 13 values, value i of row  *)
(* j taken from cell i of data row j, and process_data turns the returned  *)
(* rows into as many records, in the same order, keyed by the schema.      *)
C3_WellFormedTable ==
    /\ (/\ Extracted
        /\ response.doc.hasTable
        /\ Len(response.doc.rows) >= 2
        /\ \A j \in 1..Len(DataRows(response.doc)) :
              HasExactlyN(DataRows(response.doc)[j]))
       => /\ diag = "ok"
          /\ ~ret.none
          /\ ret.headers = table_headers
          /\ Len(ret.data) = Len(response.doc.rows) - 1
          /\ Mirrors(ret.data, DataRows(response.doc))
    /\ (pc = "done" /\ truthy(ret))
       => /\ Len(json_data) = Len(ret.data)
          /\ \A j \in 1..Len(ret.data) :
                /\ DOMAIN json_data[j] = { table_headers[i] : i \in 1..13 }
                /\ \A i \in 1..13 : json_data[j][table_headers[i]] = ret.data[j][i]

C3_Witness ==
    /\ pc = "done" /\ truthy(ret)
    /\ Len(ret.data) = 3 /\ Len(json_data) = 3
    /\ json_data[1]["Date"] = <<"-", "2">>
    /\ json_data[2]["Date"] = <<"(", "3", ")">>
    /\ json_data[3]["Date"] = <<"-", "2">>

(* C4, as claimed: every data row whose cell count differs from 13 is      *)
(* dropped, and the result is exactly the rows with 13 cells, in order.    *)
C4_Original ==
    (Extracted /\ response.doc.hasTable /\ response.doc.rows # <<>>)
    => ReturnsRows(SelectSeq(DataRows(response.doc), HasExactlyN))

(* C4, amended: a data row with fewer than 13 cells is dropped; a row with *)
(* more than 13 cells is kept with the values of its first 13 cells; the   *)
(* result is exactly the rows with at least 13 cells, in source order,     *)
(* whatever rows are dropped between them.                                 *)
C4_ShortRowsDropped ==
    (Extracted /\ response.doc.hasTable /\ response.doc.rows # <<>>)
    => ReturnsRows(SelectSeq(DataRows(response.doc), HasAtLeastN))

C4_Witness ==
    /\ Extracted
    /\ Len(response.doc.rows) = 4
    /\ HasExactlyN(DataRows(response.doc)[1])
    /\ Len(DataRows(response.doc)[2]) = 12
    /\ Len(DataRows(response.doc)[3]) = 14
    /\ Len(ret.data) = 2

(* C5, as claimed: no table gives StructureNotFound, a table with only a   *)
(* header row gives StructureNotFound, a table whose data rows all have a  *)
(* cell count other than 13 gives EmptyResult.                             *)
C5_Original ==
    Extracted =>
        /\ ~response.doc.hasTable => diag \in StructureNotFound
        /\ (response.doc.hasTable /\ Len(response.doc.rows) = 1)
              => diag \in StructureNotFound
        /\ (/\ response.doc.hasTable
            /\ Len(response.doc.rows) >= 2
            /\ \A j \in 1..Len(DataRows(response.doc)) :
                  ~HasExactlyN(DataRows(response.doc)[j]))
              => diag \in EmptyResult /\ ret = NonePair

(* C5, amended: no table, or a table without any row, gives                *)
(* StructureNotFound; a table with only a header row, or whose data rows   *)
(* all have fewer than 13 cells, gives EmptyResult, a failure with nothing *)
(* returned; a success never carries zero rows.                            *)
C5_NoDataOutcomes ==
    /\ Extracted =>
        /\ ~response.doc.hasTable => diag \in StructureNotFound
        /\ (response.doc.hasTable /\ response.doc.rows = <<>>)
              => diag \in StructureNotFound
        /\ (/\ response.doc.hasTable
            /\ response.doc.rows # <<>>
            /\ \A j \in 1..Len(DataRows(response.doc)) :
                  ~HasAtLeastN(DataRows(response.doc)[j]))
              => diag \in EmptyResult
        /\ diag \in StructureNotFound \cup EmptyResult => ret = NonePair
    /\ ~ret.none => ret.data # <<>>

C5_Witness ==
    /\ Extracted
    /\ response.doc.hasTable
    /\ Len(response.doc.rows) = 1
    /\ diag \in EmptyResult

(* C6: every value of an accepted row is the trimmed text of the cell's    *)
(* span.tabletext when the cell has one, and the cell's own trimmed text   *)
(* when it has none; it is never the full cell text in place of the span's.*)
C6_SpanPreferred ==
    (Extracted /\ diag = "ok") =>
        LET kept == SelectSeq(DataRows(response.doc), HasAtLeastN)
        IN  /\ Len(ret.data) = Len(kept)
            /\ \A j \in 1..Len(kept) : \A i \in 1..13 :
                  LET c == kept[j][i]
                      v == ret.data[j][i]
                  IN  /\ c.hasSpan => IsTrimOf(c.span, v)
                      /\ ~c.hasSpan => IsTrimOf(c.before \o c.after, v)
                      /\ (c.hasSpan /\ ~IsTrimOf(c.span, strip(get_text(c))))
                            => v # strip(get_text(c))

C6_Witness ==
    /\ Extracted /\ diag = "ok"
    /\ \E i \in 1..13 :
          LET c == SelectSeq(DataRows(response.doc), HasAtLeastN)[1][i]
          IN  /\ c.hasSpan
              /\ c.before \o c.after # <<>>
              /\ ret.data[1][i] = <<"1">>
    /\ \E i \in 1..13 :
          LET c == SelectSeq(DataRows(response.doc), HasAtLeastN)[1][i]
          IN  ~c.hasSpan /\ ret.data[1][i] = <<"-", "2">>

(* C7: after a failed attempt of a /scrape request a backoff is slept if   *)
(* and only if fewer than 3 attempts have been made; each backoff is       *)
(* followed by the next attempt with the counter one higher; no backoff    *)
(* follows the third failure or a success; k attempts make k - 1 backoffs. *)
C7_BackoffStep ==
    /\ (pc = "returned" /\ InService)
          => ((backoffs' = backoffs + 1 /\ pc' = "backing_off")
                <=> (~truthy(ret) /\ attempt + 1 < 3))
    /\ pc # "returned" => backoffs' = backoffs \/ pc' = "idle"
    /\ pc = "backing_off"
          => pc' = "attempting" /\ attempt' = attempt + 1 /\ calls' = calls
    /\ (InService /\ pc = "backing_off") => backoffs = attempt + 1
    /\ (InService /\ pc # "backing_off") => backoffs = attempt
    /\ (InService /\ pc \in {"returned", "done"}) => backoffs = calls - 1

C7_Backoff == [][C7_BackoffStep]_vars

C7_Witness == InService /\ pc = "done" /\ calls = 3 /\ backoffs = 2

(* C8: whatever its kind, a failure of an attempt comes back as            *)
(* (None, None), and what the driver does next depends on the attempt      *)
(* counter alone: the number of attempts and the response of a request     *)
(* are the same for every sequence of failure kinds.                       *)
C8_UniformStep ==
    /\ (pc' = "finally" /\ diag' # "ok") => ret' = NonePair
    /\ (pc = "returned" /\ InService /\ diag # "ok") =>
          /\ attempt + 1 < 3 => pc' = "backing_off" /\ httpResp' = httpResp
          /\ attempt + 1 = 3 => pc' = "done" /\ httpResp' = ErrorResp
    /\ (pc = "backing_off" /\ diag # "ok")
          => pc' = "attempting" /\ attempt' = attempt + 1
    /\ (pc' = "done" /\ InService /\ AllFailed')
          => calls' = 3 /\ httpResp' = ErrorResp

C8_Uniform == [][C8_UniformStep]_vars

C8_Witness ==
    /\ InService /\ pc = "done" /\ httpResp = ErrorResp
    /\ outcomes = <<"http_403", "no_data", "request_error">>

(* C9: a call of scrape_bitcoin_etf_data does one GET, never a second, and *)
(* its session is closed when it returns, whatever the outcome: at most    *)
(* one session is open at any time and none between the calls.             *)
C9_OneGetOneSession ==
    /\ sessionsOpen \in {0, 1}
    /\ pc \in {"idle", "attempting", "returned", "backing_off", "done"}
          => sessionsOpen = 0
    /\ pc \in {"in_try", "parsing", "finally"} => sessionsOpen = 1
    /\ pc = "in_try" => getsInCall = 0
    /\ pc \in {"parsing", "finally", "returned"} => getsInCall = 1
    /\ pc \in {"returned", "backing_off", "done"}
          => gets = calls /\ Len(outcomes) = calls

C9_Witness ==
    /\ pc = "returned" /\ diag = "request_error" /\ calls = 2
    /\ outcomes[1] = "table_not_found"
    /\ sessionsOpen = 0 /\ gets = 2

(* C10: main() makes exactly one attempt, whatever its outcome, with no    *)
(* backoff and no second attempt; more than one attempt, or a backoff,     *)
(* happens only in a /scrape request.                                      *)
C10_MainSingleAttempt ==
    /\ mode = "batch" =>
          /\ calls <= 1 /\ gets <= 1 /\ backoffs = 0 /\ attempt = 0
          /\ pc # "backing_off"
          /\ httpResp = NoHttpResp
          /\ pc \in {"returned", "done"} => calls = 1 /\ gets = 1 /\ Len(outcomes) = 1
    /\ (calls > 1 \/ backoffs > 0 \/ attempt > 0) => InService

C10_Witness ==
    mode = "batch" /\ pc = "done" /\ diag = "http_error" /\ calls = 1

====
